---- MODULE Spec2Model ----
(***************************************************************************)
(* Model of src/src/network.py: the batch pipeline                         *)
(*   main: load_and_filter -> network_viz -> calc_centrality               *)
(* over a weighted edge list, together with the part of the file system    *)
(* it touches (the viz and output directories and the three files).        *)
(*                                                                         *)
(* Library calls are modelled by what they do on the values the script     *)
(* hands them (networkx Graph.add_edge, degree_centrality,                 *)
(* eigenvector_centrality's null-graph check, pandas inner merge).         *)
(* Betweenness and eigenvector scores are kept as one opaque value per     *)
(* node: only their key sets take part in the merge.  Power iteration of   *)
(* eigenvector_centrality converges within its 100 iterations on every     *)
(* non-empty graph of at most four nodes, which covers every graph the     *)
(* bounds below can build; larger graphs are outside the model.            *)
(***************************************************************************)
EXTENDS Integers, Sequences, FiniteSets, TLC

\* ---------------------------------------------------------------- bounds
NumNodes == 3      \* node identifiers are 1..NumNodes
MaxWeight == 2     \* weights are 1..MaxWeight, thresholds 0..MaxWeight
MaxRows == 2       \* rows of the edge list
MaxRuns == 2       \* invocations of the script in a row

Nodes == 1..NumNodes
Weights == 1..MaxWeight
Thresholds == 0..MaxWeight

Rows == [nodeA : Nodes, nodeB : Nodes, weight : Weights]

RECURSIVE SeqsUpTo(_, _)
SeqsUpTo(S, n) ==
    IF n = 0 THEN {<<>>}
    ELSE LET shorter == SeqsUpTo(S, n - 1)
         IN  shorter \cup {Append(s, x) : s \in {t \in shorter : Len(t) = n - 1}, x \in S}

Range(s) == {s[i] : i \in DOMAIN s}

\* ------------------------------------------------- command line arguments
\* A value of --include_labels: the default is the boolean False, anything
\* given on the command line is a string.
BoolFalse == [type |-> "bool", val |-> "False"]
BoolTrue  == [type |-> "bool", val |-> "True"]
StrTrue   == [type |-> "str", val |-> "True"]
LabelValues ==
    {BoolFalse, BoolTrue, StrTrue,
     [type |-> "str", val |-> "true"],
     [type |-> "str", val |-> "TRUE"],
     [type |-> "str", val |-> "1"],
     [type |-> "str", val |-> "False"]}

\* ------------------------------------------------------------ file system
viz_dir == "../viz"
outputDir == "../output"
Dirs == {viz_dir, outputDir}
PathLabels == "../viz/network_w_labels.png"
PathNoLabels == "../viz/network.png"
df_path == "../output/centrality_measures.csv"
Paths == {PathLabels, PathNoLabels, df_path}
DirOf(p) == IF p = df_path THEN outputDir ELSE viz_dir

NoFile == [kind |-> "none"]
Stale  == [kind |-> "stale"]

\* create_dir with the existence test left out: os.mkdir raises on an
\* existing directory.
create_dir_no_check(fs, dirName) ==
    IF dirName \in fs.dirs
    THEN [fs |-> fs, err |-> "FileExistsError"]
    ELSE [fs |-> [fs EXCEPT !.dirs = @ \cup {dirName},
                            !.created = @ \cup {dirName}],
          err |-> "none"]

create_dir(fs, dirName) ==
    IF dirName \notin fs.dirs
    THEN [fs |-> [fs EXCEPT !.dirs = @ \cup {dirName},
                            !.created = @ \cup {dirName}],
          err |-> "none"]
    ELSE [fs |-> fs, err |-> "none"]

\* savefig that leaves the disk alone.
savefig_lost(fs, path, image) == fs

savefig(fs, path, image) ==
    [fs EXCEPT !.files[path] = image, !.written = @ \cup {path}]

to_csv(fs, path, table) ==
    [fs EXCEPT !.files[path] = [kind |-> "csv", rows |-> table],
               !.written = @ \cup {path}]

\* ------------------------------------------------------- load_and_filter
\* The comparison turned round.
load_and_filter_below(weighted_edgelist, weight_threshold) ==
    SelectSeq(weighted_edgelist, LAMBDA r : r.weight < weight_threshold)

\* The comparison made inclusive.
load_and_filter_inclusive(weighted_edgelist, weight_threshold) ==
    SelectSeq(weighted_edgelist, LAMBDA r : r.weight >= weight_threshold)

load_and_filter(weighted_edgelist, weight_threshold) ==
    SelectSeq(weighted_edgelist, LAMBDA r : r.weight > weight_threshold)

\* ---------------------------------------------------------------- graph
\* A networkx Graph: nodes in insertion order, one entry per undirected
\* edge in insertion order with its attribute.
EmptyGraph == [nodes |-> <<>>, edges |-> <<>>]

AddNode(nodes, n) == IF n \in Range(nodes) THEN nodes ELSE Append(nodes, n)

SamePair(e, s, t) == {e.u, e.v} = {s, t}

\* add_edge that keeps the attribute of the first row of a pair.
add_edge_first_wins(G, s, t, w) ==
    LET nodes == AddNode(AddNode(G.nodes, s), t)
        hit == {i \in DOMAIN G.edges : SamePair(G.edges[i], s, t)}
    IN  IF hit # {}
        THEN [nodes |-> nodes, edges |-> G.edges]
        ELSE [nodes |-> nodes,
              edges |-> Append(G.edges, [u |-> s, v |-> t, weight |-> w])]

\* add_edge that registers only the source endpoint as a node.
add_edge_source_only(G, s, t, w) ==
    LET nodes == AddNode(G.nodes, s)
        hit == {i \in DOMAIN G.edges : SamePair(G.edges[i], s, t)}
    IN  IF hit # {}
        THEN [nodes |-> nodes,
              edges |-> [i \in DOMAIN G.edges |->
                           IF i \in hit THEN [G.edges[i] EXCEPT !.weight = w]
                           ELSE G.edges[i]]]
        ELSE [nodes |-> nodes,
              edges |-> Append(G.edges, [u |-> s, v |-> t, weight |-> w])]

\* g.add_edge(s, t); g[s][t].update(weight = w)
add_edge(G, s, t, w) ==
    LET nodes == AddNode(AddNode(G.nodes, s), t)
        hit == {i \in DOMAIN G.edges : SamePair(G.edges[i], s, t)}
    IN  IF hit # {}
        THEN [nodes |-> nodes,
              edges |-> [i \in DOMAIN G.edges |->
                           IF i \in hit THEN [G.edges[i] EXCEPT !.weight = w]
                           ELSE G.edges[i]]]
        ELSE [nodes |-> nodes,
              edges |-> Append(G.edges, [u |-> s, v |-> t, weight |-> w])]

RECURSIVE from_pandas_edgelist(_)
from_pandas_edgelist(df) ==
    IF df = <<>> THEN EmptyGraph
    ELSE LET last == df[Len(df)]
         IN  add_edge(from_pandas_edgelist(SubSeq(df, 1, Len(df) - 1)),
                      last.nodeA, last.nodeB, last.weight)

\* Graph.degree: a self-loop counts twice.
Degree(G, n) ==
    Cardinality({i \in DOMAIN G.edges : G.edges[i].u = n})
  + Cardinality({i \in DOMAIN G.edges : G.edges[i].v = n})

\* ------------------------------------------------------------ centrality
\* A score is the fraction num / den.
\* degree_centrality dividing by the node count.
degree_centrality_by_n(G) ==
    IF Len(G.nodes) <= 1
    THEN [i \in DOMAIN G.nodes |->
            [node |-> G.nodes[i], degree |-> [num |-> 1, den |-> 1]]]
    ELSE [i \in DOMAIN G.nodes |->
            [node |-> G.nodes[i],
             degree |-> [num |-> Degree(G, G.nodes[i]), den |-> Len(G.nodes)]]]

degree_centrality(G) ==
    IF Len(G.nodes) <= 1
    THEN [i \in DOMAIN G.nodes |->
            [node |-> G.nodes[i], degree |-> [num |-> 1, den |-> 1]]]
    ELSE [i \in DOMAIN G.nodes |->
            [node |-> G.nodes[i],
             degree |-> [num |-> Degree(G, G.nodes[i]),
                         den |-> Len(G.nodes) - 1]]]

\* betweenness_centrality that reports only the nodes lying between others.
betweenness_centrality_inner(G) ==
    LET inner == SelectSeq(G.nodes, LAMBDA n : Degree(G, n) > 1)
    IN  [i \in DOMAIN inner |-> [node |-> inner[i], betweenness |-> "float"]]

betweenness_centrality(G) ==
    [i \in DOMAIN G.nodes |-> [node |-> G.nodes[i], betweenness |-> "float"]]

\* eigenvector_centrality that returns an empty mapping for the null graph.
eigenvector_centrality_no_raise(G) ==
    [err |-> "none",
     rows |-> [i \in DOMAIN G.nodes |->
                 [node |-> G.nodes[i], eigenvector |-> "float"]]]

eigenvector_centrality(G) ==
    IF Len(G.nodes) = 0
    THEN [err |-> "NetworkXPointlessConcept", rows |-> <<>>]
    ELSE [err |-> "none",
          rows |-> [i \in DOMAIN G.nodes |->
                      [node |-> G.nodes[i], eigenvector |-> "float"]]]

\* pd.merge(left, right, on = 'node'): inner join, left order kept.
RECURSIVE merge(_, _)
merge(left, right) ==
    IF left = <<>> THEN <<>>
    ELSE LET l == left[1]
             matches == SelectSeq(right, LAMBDA r : r.node = l.node)
         IN  [i \in DOMAIN matches |-> l @@ matches[i]]
             \o merge(Tail(left), right)

centrality_df(G) ==
    merge(merge(degree_centrality(G), betweenness_centrality(G)),
          eigenvector_centrality(G).rows)

\* ------------------------------------------------------------- rendering
\* The truth value of the flag decides: every non-empty string is true.
with_labels_truthy(labels) == labels # BoolFalse

\* self.labels == "True"
with_labels(labels) == labels = StrTrue

viz_filepath(labels) == IF with_labels(labels) THEN PathLabels ELSE PathNoLabels

\* The drawing: the nodes and edges of G, labelled or not.  Weights are
\* not drawn.
Image(G, labelled) ==
    [kind |-> "png", nodes |-> G.nodes,
     edges |-> [i \in DOMAIN G.edges |-> <<G.edges[i].u, G.edges[i].v>>],
     with_labels |-> labelled]

\* ----------------------------------------------------------------- state
VARIABLES
    weighted_edgelist,   \* the rows of the csv file at args["filepath"]
    threshold,           \* int(args["weight_threshold"])
    labels,              \* args["include_labels"]
    pc,                  \* the call main makes next, or "done" / "failed"
    filtered_df,         \* result of load_and_filter
    G,                   \* result of network_viz
    error,               \* the exception that ended the run
    fs,                  \* directories and files; what this run created and wrote
    runs                 \* invocations so far

vars == <<weighted_edgelist, threshold, labels, pc, filtered_df, G, error, fs, runs>>

\* Disk states before the first run: any of the two directories may exist,
\* and an existing directory may hold files of an earlier run.
InitialFS ==
    {s \in [dirs : SUBSET Dirs, files : [Paths -> {NoFile, Stale}],
            created : {{}}, written : {{}}] :
        \A p \in Paths : s.files[p] = Stale => DirOf(p) \in s.dirs}

CleanFS == [dirs |-> {}, files |-> [p \in Paths |-> NoFile],
            created |-> {}, written |-> {}]

InitRun ==
    /\ pc = "load_and_filter"
    /\ filtered_df = <<>>
    /\ G = EmptyGraph
    /\ error = "none"

\* Every edge list up to MaxRows rows, default flag, empty disk, in the last
\* invocation (one run shows all there is to the graph).
InitGraph ==
    /\ weighted_edgelist \in SeqsUpTo(Rows, MaxRows)
    /\ threshold \in Thresholds
    /\ labels = BoolFalse
    /\ fs = CleanFS
    /\ runs = MaxRuns
    /\ InitRun

\* Every flag value and disk state, on the empty and the one-row edge
\* lists, from the first invocation on.
InitIO ==
    /\ weighted_edgelist \in {<<>>} \cup {<<r>> : r \in Rows}
    /\ threshold \in Thresholds
    /\ labels \in LabelValues
    /\ fs \in InitialFS
    /\ runs = 1
    /\ InitRun

Init == InitGraph \/ InitIO

\* main, line 78
LoadAndFilter ==
    /\ pc = "load_and_filter"
    /\ filtered_df' = load_and_filter(weighted_edgelist, threshold)
    /\ pc' = "network_viz"
    /\ UNCHANGED <<weighted_edgelist, threshold, labels, G, error, fs, runs>>

\* main, line 81
NetworkViz ==
    /\ pc = "network_viz"
    /\ LET made == create_dir(fs, viz_dir)
           graph == from_pandas_edgelist(filtered_df)
       IN  IF made.err # "none"
           THEN /\ pc' = "failed"
                /\ error' = made.err
                /\ fs' = made.fs
                /\ G' = G
           ELSE /\ G' = graph
                /\ fs' = savefig(made.fs, viz_filepath(labels),
                                 Image(graph, with_labels(labels)))
                /\ pc' = "calc_centrality"
                /\ error' = error
    /\ UNCHANGED <<weighted_edgelist, threshold, labels, filtered_df, runs>>

\* main, line 84
CalcCentrality ==
    /\ pc = "calc_centrality"
    /\ LET made == create_dir(fs, outputDir)
           ev == eigenvector_centrality(G)
       IN  IF made.err # "none"
           THEN /\ pc' = "failed"
                /\ error' = made.err
                /\ fs' = made.fs
           ELSE IF ev.err # "none"
           THEN /\ pc' = "failed"
                /\ error' = ev.err
                /\ fs' = made.fs
           ELSE /\ fs' = to_csv(made.fs, df_path, centrality_df(G))
                /\ pc' = "done"
                /\ error' = error
    /\ UNCHANGED <<weighted_edgelist, threshold, labels, filtered_df, G, runs>>

\* The script is started again with the same arguments; the disk is as the
\* previous run left it.
Rerun ==
    /\ pc \in {"done", "failed"}
    /\ runs < MaxRuns
    /\ runs' = runs + 1
    /\ pc' = "load_and_filter"
    /\ filtered_df' = <<>>
    /\ G' = EmptyGraph
    /\ error' = "none"
    /\ fs' = [fs EXCEPT !.created = {}, !.written = {}]
    /\ UNCHANGED <<weighted_edgelist, threshold, labels>>

Next == LoadAndFilter \/ NetworkViz \/ CalcCentrality \/ Rerun

Spec == Init /\ [][Next]_vars

\* ------------------------------------------------------------ properties
Terminal == pc \in {"done", "failed"}
GraphBuilt == pc \in {"calc_centrality", "done"}
ImagePaths == {PathLabels, PathNoLabels}
NodeSet(g) == Range(g.nodes)
Pair(r) == {r.nodeA, r.nodeB}
EdgePairs(g) == {{g.edges[i].u, g.edges[i].v} : i \in DOMAIN g.edges}

RECURSIVE IsSubSeq(_, _)
IsSubSeq(s, t) ==
    IF s = <<>> THEN TRUE
    ELSE IF t = <<>> THEN FALSE
    ELSE IF Head(s) = Head(t) THEN IsSubSeq(Tail(s), Tail(t))
    ELSE IsSubSeq(s, Tail(t))

\* C1 as stated: a run whose filtered relation is empty has failed, at the
\* end, without having created a directory or written a file.
C1_NothingOnDiskAtFailure ==
    (Terminal /\ filtered_df = <<>>) =>
        /\ pc = "failed"
        /\ fs.created = {}
        /\ fs.written = {}

\* C1 amended: a run whose filtered relation is empty fails with the
\* null-graph error of eigenvector_centrality, raised inside calc_centrality:
\* by then both directories exist and the image has been written; only the
\* centrality CSV is not written.
C1_EmptyGraphFailsInCentrality ==
    (Terminal /\ filtered_df = <<>>) =>
        /\ pc = "failed"
        /\ error = "NetworkXPointlessConcept"
        /\ Dirs \subseteq fs.dirs
        /\ fs.written = {viz_filepath(labels)}
        /\ fs.files[viz_filepath(labels)] = Image(EmptyGraph, with_labels(labels))

C1_Witness ==
    /\ pc = "failed"
    /\ weighted_edgelist # <<>>
    /\ filtered_df = <<>>
    /\ fs.created = Dirs
    /\ fs.written = {PathNoLabels}

\* C2 as stated: a run ends with both artifacts written or with neither.
C2_BothOrNeither ==
    Terminal => ((fs.written \cap ImagePaths # {}) <=> (df_path \in fs.written))

\* C2 amended: a run never ends with the CSV written and the image not
\* written; a successful run has written both, and a run that failed in
\* calc_centrality has written the image only.
C2_ImageBeforeCsv ==
    Terminal =>
        /\ df_path \in fs.written => fs.written \cap ImagePaths # {}
        /\ pc = "done" => (df_path \in fs.written /\ fs.written \cap ImagePaths # {})
        /\ error = "NetworkXPointlessConcept" =>
               (df_path \notin fs.written /\ fs.written \cap ImagePaths # {})

C2_Witness ==
    /\ pc = "failed"
    /\ error = "NetworkXPointlessConcept"
    /\ PathLabels \in fs.written
    /\ df_path \notin fs.written
    /\ fs.files[df_path] = NoFile

\* C3: the centrality table written by a successful run has exactly one row
\* per node of G: as many rows as nodes, every node once, no other node.
C3_JoinComplete ==
    pc = "done" =>
        LET table == fs.files[df_path].rows
        IN  /\ Len(table) = Len(G.nodes)
            /\ \A n \in NodeSet(G) :
                   Cardinality({i \in DOMAIN table : table[i].node = n}) = 1
            /\ \A i \in DOMAIN table : table[i].node \in NodeSet(G)

C3_Witness ==
    /\ pc = "done"
    /\ Len(G.nodes) = 3
    /\ Len(fs.files[df_path].rows) = 3
    /\ \E n \in NodeSet(G) : Degree(G, n) = 1

\* C4: the filtered relation is exactly the rows of the input with weight
\* strictly above the threshold, unaltered and in their original order.
C4_StrictFilter ==
    pc # "load_and_filter" =>
        LET kept == {i \in DOMAIN weighted_edgelist :
                        weighted_edgelist[i].weight > threshold}
        IN  /\ Len(filtered_df) = Cardinality(kept)
            /\ \A i \in kept :
                   filtered_df[Cardinality({j \in kept : j <= i})] = weighted_edgelist[i]

C4_Witness ==
    /\ pc = "network_viz"
    /\ Len(weighted_edgelist) = 2
    /\ weighted_edgelist[1].weight = threshold
    /\ filtered_df = <<weighted_edgelist[2]>>

\* C5: the node set of the built graph is the union of the endpoints of the
\* surviving rows; every edge joins two nodes of the graph and every node is
\* an endpoint of some edge.
C5_NodesAreEndpoints ==
    GraphBuilt =>
        /\ NodeSet(G) = UNION {Pair(filtered_df[i]) : i \in DOMAIN filtered_df}
        /\ \A i \in DOMAIN G.edges : {G.edges[i].u, G.edges[i].v} \subseteq NodeSet(G)
        /\ \A n \in NodeSet(G) : \E i \in DOMAIN G.edges : n \in {G.edges[i].u, G.edges[i].v}
        /\ Len(G.nodes) = Cardinality(NodeSet(G))

C5_Witness ==
    /\ pc = "calc_centrality"
    /\ Len(G.edges) = 1
    /\ \E i \in DOMAIN weighted_edgelist :
           /\ weighted_edgelist[i].weight <= threshold
           /\ weighted_edgelist[i].nodeB \notin NodeSet(G)
           /\ weighted_edgelist[i].nodeA \in NodeSet(G)

\* What the filtered relation says the degree of n is: one per distinct
\* neighbour, two for a self-loop.
RowDegree(n) ==
    Cardinality({m \in Nodes \ {n} : \E i \in DOMAIN filtered_df : Pair(filtered_df[i]) = {n, m}})
  + (IF \E i \in DOMAIN filtered_df : Pair(filtered_df[i]) = {n} THEN 2 ELSE 0)

\* C6 as stated: degree / (node_count - 1) with every value in [0,1] from
\* two nodes on, and 0 for the node of a single-node graph.
C6_DegreeZeroForSingleNode ==
    pc = "done" =>
        LET table == fs.files[df_path].rows
        IN  \A i \in DOMAIN table :
                LET d == table[i].degree
                IN  /\ Len(table) >= 2 =>
                        /\ d.num * (Len(table) - 1) = RowDegree(table[i].node) * d.den
                        /\ 0 <= d.num /\ d.num <= d.den
                    /\ Len(table) = 1 => d.num = 0

\* C6 amended: degree / (node_count - 1) from two nodes on, where a
\* self-loop counts twice, so that the value lies in [0,1] when the graph
\* has no self-loop; 1 for the node of a single-node graph.
C6_DegreeCentrality ==
    pc = "done" =>
        LET table == fs.files[df_path].rows
            loops == \E j \in DOMAIN filtered_df : filtered_df[j].nodeA = filtered_df[j].nodeB
        IN  \A i \in DOMAIN table :
                LET d == table[i].degree
                IN  /\ d.den > 0
                    /\ Len(table) >= 2 =>
                        /\ d.num * (Len(table) - 1) = RowDegree(table[i].node) * d.den
                        /\ ~loops => (0 <= d.num /\ d.num <= d.den)
                        /\ (Len(table) = 2 /\ Len(G.edges) = 1) => d.num = d.den
                    /\ Len(table) = 1 => d.num = d.den

C6_Witness ==
    /\ pc = "done"
    /\ Len(G.nodes) = 3
    /\ Len(G.edges) = 2
    /\ \A j \in DOMAIN filtered_df : filtered_df[j].nodeA # filtered_df[j].nodeB
    /\ \E i \in DOMAIN fs.files[df_path].rows :
           fs.files[df_path].rows[i].degree = [num |-> 1, den |-> 2]

\* C7: the built graph has one edge per unordered pair of the filtered
\* relation, carrying the weight of the last row of that pair, and its node
\* set and edge set are the same for every ordering of the rows.
C7_LastWeightWins ==
    pc = "calc_centrality" =>
        /\ \A i, j \in DOMAIN G.edges :
               {G.edges[i].u, G.edges[i].v} = {G.edges[j].u, G.edges[j].v} => i = j
        /\ EdgePairs(G) = {Pair(filtered_df[i]) : i \in DOMAIN filtered_df}
        /\ \A e \in Range(G.edges) :
               \E i \in DOMAIN filtered_df :
                   /\ Pair(filtered_df[i]) = {e.u, e.v}
                   /\ filtered_df[i].weight = e.weight
                   /\ \A j \in DOMAIN filtered_df :
                          Pair(filtered_df[j]) = {e.u, e.v} => j <= i
        /\ \A f \in [DOMAIN filtered_df -> DOMAIN filtered_df] :
               (\A a, b \in DOMAIN f : f[a] = f[b] => a = b) =>
                   LET H == from_pandas_edgelist([k \in DOMAIN filtered_df |-> filtered_df[f[k]]])
                   IN  NodeSet(H) = NodeSet(G) /\ EdgePairs(H) = EdgePairs(G)

C7_Witness ==
    /\ pc = "calc_centrality"
    /\ Len(filtered_df) = 2
    /\ filtered_df[1].nodeA # filtered_df[1].nodeB
    /\ filtered_df[2].nodeA = filtered_df[1].nodeB
    /\ filtered_df[2].nodeB = filtered_df[1].nodeA
    /\ filtered_df[2].weight # filtered_df[1].weight
    /\ G.edges = <<[u |-> filtered_df[1].nodeA, v |-> filtered_df[1].nodeB,
                    weight |-> filtered_df[2].weight]>>

\* C8: after network_viz the run has written exactly one image: the
\* labelled drawing at network_w_labels.png when the flag is the string
\* "True", the unlabelled drawing at network.png for every other value.
C8_LabelFlag ==
    GraphBuilt =>
        IF labels = [type |-> "str", val |-> "True"]
        THEN /\ fs.written \cap ImagePaths = {PathLabels}
             /\ fs.files[PathLabels].kind = "png"
             /\ fs.files[PathLabels].with_labels
        ELSE /\ fs.written \cap ImagePaths = {PathNoLabels}
             /\ fs.files[PathNoLabels].kind = "png"
             /\ ~fs.files[PathNoLabels].with_labels

C8_Witness ==
    /\ pc = "done"
    /\ labels = BoolTrue
    /\ fs.written = {PathNoLabels, df_path}
    /\ fs.files[PathLabels] = Stale

\* C9: no run fails on a directory that exists; every run on an input whose
\* filtered relation is not empty succeeds, the first and the later ones,
\* whatever directories existed before, and leaves its own image and table
\* in the files.
C9_RerunSucceeds ==
    /\ error # "FileExistsError"
    /\ pc \in {"calc_centrality", "done", "failed"} => viz_dir \in fs.dirs
    /\ (Terminal /\ filtered_df # <<>>) =>
           /\ pc = "done"
           /\ Dirs \subseteq fs.dirs
           /\ fs.files[df_path].kind = "csv"
           /\ Len(fs.files[df_path].rows) = Len(G.nodes)
           /\ fs.files[viz_filepath(labels)].kind = "png"
           /\ fs.files[viz_filepath(labels)].nodes = G.nodes

C9_Witness ==
    /\ runs = MaxRuns
    /\ pc = "done"
    /\ fs.created = {}
    /\ fs.written = {PathNoLabels, df_path}

\* C10: for thresholds t1 <= t2 the rows kept at t2 are among the rows kept
\* at t1, in particular no more of them; the filtered relation of the run is
\* the one kept at its own threshold.
C10_FilterMonotonic ==
    pc = "network_viz" =>
        /\ \A t1, t2 \in Thresholds :
               t1 <= t2 =>
                   /\ IsSubSeq(load_and_filter(weighted_edgelist, t2),
                               load_and_filter(weighted_edgelist, t1))
                   /\ Len(load_and_filter(weighted_edgelist, t2))
                          <= Len(load_and_filter(weighted_edgelist, t1))
        /\ \A t2 \in Thresholds :
               threshold <= t2 =>
                   IsSubSeq(load_and_filter(weighted_edgelist, t2), filtered_df)

C10_Witness ==
    /\ pc = "network_viz"
    /\ Len(filtered_df) = 2
    /\ \E t2 \in Thresholds :
           /\ threshold < t2
           /\ Len(load_and_filter(weighted_edgelist, t2)) = 1

====
